---------------------------- MODULE Spec2Model ----------------------------
(***************************************************************************)
(* A model of the hand-written part of the cgal-tutorial repository: the   *)
(* toy rational type Frac, the rational point FracPoint2 and the Traits    *)
(* bundle (Less_xy_2, Left_turn_2, Equal_2) of                             *)
(* src/src/01-first-steps/part-vii.cpp.                                    *)
(*                                                                         *)
(* Every operation of the source is a pure function, so each is an         *)
(* operator here and the state machine is a driver: Init draws the         *)
(* operands from bounded sets and one action per operation applies the     *)
(* operator to them and stores what it returned in `out`.                  *)
(*                                                                         *)
(* ll is long long.  The operands are drawn so small that no product or    *)
(* sum leaves the range of long long, so every ll expression below has its *)
(* mathematical value.                                                     *)
(***************************************************************************)
EXTENDS Integers, Sequences, FiniteSets, TLC

VARIABLES
    pc,         \* "init", or the operation that has been applied
    a, b,       \* the Frac operands
    p0, p1, p2, \* the FracPoint2 operands
    out,        \* what the operation returned
    steps,      \* how many operations have been applied in a sequence
    points,     \* main: the input vector of the convex hull
    V,          \* scan: the points, sorted
    S,          \* scan: the chain being built
    lower,      \* scan: the finished lower chain
    i,          \* scan: the index in V of the point looked at
    chull       \* main: the output vector

vars ==
    <<pc, a, b, p0, p1, p2, out, steps, points, V, S, lower, i, chull>>

scanVars == <<points, V, S, lower, i, chull>>

----------------------------------------------------------------------------
(* Bounds of the model. *)

\* Frac operands have numerators in -MaxNum..MaxNum
MaxNum == 2

\* and denominators in -MaxDen..MaxDen (zero included: the constructor
\* takes any pair).
MaxDen == 2

\* The coordinates of the points handed to the Traits predicates are the
\* first MaxCoords fractions of CoordSeq.
MaxCoords == 6

\* The convex hull is taken of at most MaxPts points.
MaxPts == 4

\* A sequence of operations is at most MaxSteps long.
MaxSteps == 3

\* The collinearity tests take their y coordinates from the first MaxYs
\* decimal literals of YSeq.
MaxYs == 6

\* The width in bits given to ll where its range matters.  long long has 64;
\* the model scales the width down, and keeps what the width decides: which
\* products of two representable values are representable.
LLBits == 6

----------------------------------------------------------------------------
(* class Frac *)

\* Frac(ll num, ll den)
Frac(n, d) == [num |-> n, den |-> d]

\* Frac(): the 'zero' fraction 0/1
FracDefault == Frac(0, 1)

\* explicit Frac(ll num)
FracInt(n) == Frac(n, 1)

\* |x| as std::gcd takes it
Abs(x) == IF x < 0 THEN -x ELSE x

RECURSIVE Euclid(_, _)
Euclid(m, n) == IF n = 0 THEN m ELSE Euclid(n, m % n)

\* std::gcd that is 0 whenever its first argument is
std_gcd_zero_first(m, n) == IF m = 0 THEN 0 ELSE Euclid(Abs(m), Abs(n))

\* std::gcd(m, n): the greatest common divisor of |m| and |n|; 0 when both
\* are 0.
std_gcd(m, n) == Euclid(Abs(m), Abs(n))

\* x /= g for ll x and g > 0: C++ division truncates toward zero.
TruncDiv(x, g) == IF x >= 0 THEN x \div g ELSE -((-x) \div g)

\* Reduce without the division by the gcd
Reduce_unreduced(new_num, new_den) == Frac(new_num, new_den)

\* The reduction every arithmetic operator ends with:
\*   ll new_gcd = std::gcd(new_num, new_den);
\*   if (new_gcd != 0) { new_num /= new_gcd; new_den /= new_gcd; }
\*   return {new_num, new_den};
\* with what it computed on the way: the gcd, and whether it divided by it.
Reduction(new_num, new_den) ==
    LET new_gcd == std_gcd(new_num, new_den)
    IN  IF new_gcd # 0
        THEN [new_gcd |-> new_gcd, divides |-> TRUE,
              val |-> Frac(TruncDiv(new_num, new_gcd),
                           TruncDiv(new_den, new_gcd))]
        ELSE [new_gcd |-> new_gcd, divides |-> FALSE,
              val |-> Frac(new_num, new_den)]

\* what the reduction returns
Reduce(new_num, new_den) == Reduction(new_num, new_den).val

\* operator <
op_lt(f, other) == f.num * other.den < other.num * f.den

\* operator <= written with the < of the operator above it
op_le_strict(f, other) == f.num * other.den < other.num * f.den

\* operator <=
op_le(f, other) == f.num * other.den <= other.num * f.den

\* operator > with the two products exchanged
op_gt_exchanged(f, other) == other.num * f.den > f.num * other.den

\* operator >
op_gt(f, other) == f.num * other.den > other.num * f.den

\* operator >=
op_ge(f, other) == f.num * other.den >= other.num * f.den

\* operator ==
op_eq(f, other) == f.num * other.den = other.num * f.den

\* operator + without the factor den() in the second product
op_add_unscaled(f, other) ==
    Reduce(f.num * other.den + other.num, f.den * other.den)

\* new_num and new_den of operator +
raw_add(f, other) ==
    [num |-> f.num * other.den + f.den * other.num,
     den |-> f.den * other.den]

\* operator +
op_add(f, other) == Reduce(raw_add(f, other).num, raw_add(f, other).den)

\* operator - with the + of the operator above it
op_sub_plus(f, other) ==
    Reduce(f.num * other.den + f.den * other.num, f.den * other.den)

\* new_num and new_den of operator -
raw_sub(f, other) ==
    [num |-> f.num * other.den - f.den * other.num,
     den |-> f.den * other.den]

\* operator -
op_sub(f, other) == Reduce(raw_sub(f, other).num, raw_sub(f, other).den)

\* new_num and new_den of operator *
raw_mul(f, other) ==
    [num |-> f.num * other.num,
     den |-> f.den * other.den]

\* operator * with each numerator multiplied by the other denominator
op_mul_crosswise(f, other) ==
    Reduce(f.num * other.den, f.den * other.num)

\* operator *
op_mul(f, other) == Reduce(raw_mul(f, other).num, raw_mul(f, other).den)

\* new_num and new_den of operator /
raw_div(f, other) ==
    [num |-> f.num * other.den,
     den |-> f.den * other.num]

\* operator / with the products of operator *
op_div_as_mul(f, other) ==
    Reduce(raw_mul(f, other).num, raw_mul(f, other).den)

\* operator /
op_div(f, other) == Reduce(raw_div(f, other).num, raw_div(f, other).den)

\* positive() without the case of two negative signs
positive_both_above(f) == f.num > 0 /\ f.den > 0

\* positive() with >= and <= for the numerator
positive_or_zero(f) == (f.num >= 0 /\ f.den > 0) \/ (f.num <= 0 /\ f.den < 0)

\* positive()
positive(f) == (f.num > 0 /\ f.den > 0) \/ (f.num < 0 /\ f.den < 0)

----------------------------------------------------------------------------
(* class FracPoint2 and its free operators *)

FracPoint2(x, y) == [x |-> x, y |-> y]

\* operator +(const FracPoint2 &, const FracPoint2 &)
pt_add(p, q) == FracPoint2(op_add(p.x, q.x), op_add(p.y, q.y))

\* operator -(const FracPoint2 &, const FracPoint2 &)
pt_sub(p, q) == FracPoint2(op_sub(p.x, q.x), op_sub(p.y, q.y))

\* operator *(const Frac &s, const FracPoint2 &p) and
\* operator *(const FracPoint2 &p, const Frac &s): both are s * p
pt_scale(sc, p) == FracPoint2(op_mul(sc, p.x), op_mul(sc, p.y))

\* operator /(const FracPoint2 &p, const Frac &s)
pt_div(p, sc) == FracPoint2(op_div(p.x, sc), op_div(p.y, sc))

\* cross with the two products added
cross_sum(p, q) == op_add(op_mul(p.x, q.y), op_mul(q.x, p.y))

\* cross(p, q) = p.x() * q.y() - q.x() * p.y()
cross(p, q) == op_sub(op_mul(p.x, q.y), op_mul(q.x, p.y))

----------------------------------------------------------------------------
(* class Traits *)

\* Less_xy_2 without the comparison of y
Less_xy_2_x_only(p, q) == op_lt(p.x, q.x)

\* Traits::Less_xy_2::operator()
Less_xy_2(p, q) == op_lt(p.x, q.x) \/ (op_eq(p.x, q.x) /\ op_lt(p.y, q.y))

\* Traits::Left_turn_2::operator()
Left_turn_2(q0, q1, q2) ==
    LET tv == cross(pt_sub(q1, q0), pt_sub(q2, q0))
    IN  positive(tv)

\* Traits::Equal_2::operator()
Equal_2(p, q) == op_eq(p.x, q.x) /\ op_eq(p.y, q.y)

----------------------------------------------------------------------------
(* The operands. *)

Fracs == { Frac(n, d) : n \in -MaxNum..MaxNum, d \in -MaxDen..MaxDen }

\* Coordinates for the points: zero, both signs of numerator and of
\* denominator, and one value (1/2) in two representations.  No denominator
\* is zero.
CoordSeq ==
    << Frac(0, 1), Frac(1, -1), Frac(-2, 1), Frac(1, 2), Frac(-1, -2),
       Frac(1, 1), Frac(0, -1), Frac(2, -2) >>

Min2(x, y) == IF x < y THEN x ELSE y

Coords == { CoordSeq[k] : k \in 1..Min2(MaxCoords, Len(CoordSeq)) }

Points == { FracPoint2(x, y) : x \in Coords, y \in Coords }

Origin == FracPoint2(FracDefault, FracDefault)

NoOut == [kind |-> "none"]

\* the variables of the scan, where no hull is computed
NoScan ==
    /\ points = << >> /\ V = << >> /\ S = << >>
    /\ lower = << >> /\ i = 0 /\ chull = << >>

----------------------------------------------------------------------------
(* The driver of the Frac operations: one operation is applied to the      *)
(* operands a and b.                                                       *)

InitFrac ==
    /\ pc = "init"
    /\ a \in Fracs
    /\ b \in Fracs
    /\ p0 = Origin /\ p1 = Origin /\ p2 = Origin
    /\ out = NoOut
    /\ steps = 0
    /\ NoScan

\* the operation `name` returns `value`
Return(name, value) ==
    /\ pc' = name
    /\ out' = value
    /\ UNCHANGED <<a, b, p0, p1, p2, steps, scanVars>>

\* what an arithmetic operator returns, with its new_num and new_den before
\* the reduction and the steps of the reduction
Arith(raw, val) ==
    [kind |-> "frac", val |-> val, raw |-> raw,
     new_gcd |-> Reduction(raw.num, raw.den).new_gcd,
     divides |-> Reduction(raw.num, raw.den).divides]

DoLt ==
    /\ pc = "init"
    /\ Return("lt", [kind |-> "bool", val |-> op_lt(a, b)])

DoLe ==
    /\ pc = "init"
    /\ Return("le", [kind |-> "bool", val |-> op_le(a, b)])

DoGt ==
    /\ pc = "init"
    /\ Return("gt", [kind |-> "bool", val |-> op_gt(a, b)])

DoGe ==
    /\ pc = "init"
    /\ Return("ge", [kind |-> "bool", val |-> op_ge(a, b)])

DoEq ==
    /\ pc = "init"
    /\ Return("eq", [kind |-> "bool", val |-> op_eq(a, b)])

DoAdd ==
    /\ pc = "init"
    /\ Return("add", Arith(raw_add(a, b), op_add(a, b)))

DoSub ==
    /\ pc = "init"
    /\ Return("sub", Arith(raw_sub(a, b), op_sub(a, b)))

DoMul ==
    /\ pc = "init"
    /\ Return("mul", Arith(raw_mul(a, b), op_mul(a, b)))

DoDiv ==
    /\ pc = "init"
    /\ Return("div", Arith(raw_div(a, b), op_div(a, b)))

DoPositive ==
    /\ pc = "init"
    /\ Return("positive", [kind |-> "bool", val |-> positive(a)])

\* the point (a, b) divided by the scalar b
DoPointDiv ==
    /\ pc = "init"
    /\ Return("pt_div", [kind |-> "point",
                         val |-> pt_div(FracPoint2(a, b), b)])

\* (a + b) == (b + a), the commutativity test of addition
CheckAddCommutes ==
    LET lhs == op_add(a, b)
        rhs == op_add(b, a)
    IN  /\ pc = "init"
        /\ Return("add_comm", [kind |-> "check", lhs |-> lhs, rhs |-> rhs,
                              val |-> op_eq(lhs, rhs)])

\* (a * b) == (b * a), the commutativity test of multiplication
CheckMulCommutes ==
    LET lhs == op_mul(a, b)
        rhs == op_mul(b, a)
    IN  /\ pc = "init"
        /\ Return("mul_comm", [kind |-> "check", lhs |-> lhs, rhs |-> rhs,
                              val |-> op_eq(lhs, rhs)])

\* (a - a) == Frac(0)
CheckSubSelf ==
    LET lhs == op_sub(a, a)
        rhs == FracInt(0)
    IN  /\ pc = "init"
        /\ Return("sub_self", [kind |-> "check", lhs |-> lhs, rhs |-> rhs,
                              val |-> op_eq(lhs, rhs)])

\* (a / a) == Frac(1)
CheckDivSelf ==
    LET lhs == op_div(a, a)
        rhs == FracInt(1)
    IN  /\ pc = "init"
        /\ Return("div_self", [kind |-> "check", lhs |-> lhs, rhs |-> rhs,
                              val |-> op_eq(lhs, rhs)])

NextFrac ==
    \/ DoLt \/ DoLe \/ DoGt \/ DoGe \/ DoEq
    \/ DoAdd \/ DoSub \/ DoMul \/ DoDiv
    \/ DoPositive \/ DoPointDiv
    \/ CheckAddCommutes \/ CheckMulCommutes
    \/ CheckSubSelf \/ CheckDivSelf

SpecFrac == InitFrac /\ [][NextFrac]_vars

Spec == SpecFrac

----------------------------------------------------------------------------
(* The driver of the Traits predicates: one predicate is applied to the    *)
(* points p0, p1 and p2.                                                   *)

InitTraits ==
    /\ pc = "init"
    /\ a = FracDefault /\ b = FracDefault
    /\ p0 \in Points
    /\ p1 \in Points
    /\ p2 \in Points
    /\ out = NoOut
    /\ steps = 0
    /\ NoScan

\* Left_turn_2()(p0, p1, p2), with the tv it tests
DoLeftTurn ==
    /\ pc = "init"
    /\ Return("left_turn",
           [kind |-> "turn",
            tv   |-> cross(pt_sub(p1, p0), pt_sub(p2, p0)),
            val  |-> Left_turn_2(p0, p1, p2)])

\* Left_turn_2 on (p0, p1, p2) and on (p0, p2, p1), the antisymmetry test
CheckTurnAntisymmetric ==
    /\ pc = "init"
    /\ Return("turn_antisym",
           [kind |-> "turns",
            fwd  |-> Left_turn_2(p0, p1, p2),
            bwd  |-> Left_turn_2(p0, p2, p1)])

\* Less_xy_2 and Equal_2 on the pairs of p = p0, q = p1, r = p2 that a
\* sort relies on
CheckOrder ==
    /\ pc = "init"
    /\ Return("order",
           [kind |-> "order",
            pp |-> Less_xy_2(p0, p0),
            pq |-> Less_xy_2(p0, p1),
            qp |-> Less_xy_2(p1, p0),
            qr |-> Less_xy_2(p1, p2),
            pr |-> Less_xy_2(p0, p2),
            eq |-> Equal_2(p0, p1)])

NextTraits == DoLeftTurn \/ CheckTurnAntisymmetric \/ CheckOrder

SpecTraits == InitTraits /\ [][NextTraits]_vars

----------------------------------------------------------------------------
(* main: the convex hull of a vector of points, by a Graham/Andrew scan    *)
(* that the Traits predicates drive.  The scan is the library routine      *)
(* ch_graham_andrew, which is not part of the repository; it is modelled   *)
(* as the specification describes it: sort by Less_xy_2, collapse equal    *)
(* neighbours by Equal_2, then build the lower chain left to right and     *)
(* the upper chain right to left, dropping from a chain every point at     *)
(* which Left_turn_2 finds no left turn.                                   *)

\* std::vector<Traits::Point_2> points of main
MainPoints ==
    << FracPoint2(Frac(0, 1), Frac(0, 1)),
       FracPoint2(Frac(1, 1), Frac(0, 1)),
       FracPoint2(Frac(1, 1), Frac(1, 1)),
       FracPoint2(Frac(1, 2), Frac(1, 4)) >>

\* The points an input is made of: those of main, the fourth corner of the
\* unit square, the middle of its diagonal, and the corner (1, 0) written
\* a second way.  Every denominator is positive.
HullPool ==
    { MainPoints[k] : k \in 1..Len(MainPoints) } \cup
    { FracPoint2(Frac(0, 1), Frac(1, 1)),
      FracPoint2(Frac(1, 2), Frac(1, 2)),
      FracPoint2(Frac(2, 2), Frac(0, 2)) }

Inputs == UNION { [1..n -> HullPool] : n \in 0..MaxPts }

InitHull ==
    /\ pc = "start"
    /\ a = FracDefault /\ b = FracDefault
    /\ p0 = Origin /\ p1 = Origin /\ p2 = Origin
    /\ out = NoOut
    /\ steps = 0
    /\ points \in Inputs
    /\ V = << >> /\ S = << >> /\ lower = << >> /\ i = 0 /\ chull = << >>

\* the indices in I of the points that no point with an index in I is
\* Less_xy_2 than
Least(I) == { k \in I : \A j \in I : ~Less_xy_2(points[j], points[k]) }

\* the orders in which a sort by Less_xy_2 can leave the points with an
\* index in I: a least one first, then the others sorted
RECURSIVE Sorted(_)
Sorted(I) ==
    IF I = {} THEN { << >> }
    ELSE UNION { { <<points[k]>> \o W : W \in Sorted(I \ {k}) } : k \in Least(I) }

\* Keep the first of every run of Equal_2 neighbours.
RECURSIVE Unique(_, _)
Unique(kept, rest) ==
    IF rest = << >> THEN kept
    ELSE IF kept # << >> /\ Equal_2(kept[Len(kept)], Head(rest))
         THEN Unique(kept, Tail(rest))
         ELSE Unique(Append(kept, Head(rest)), Tail(rest))

\* The point V[i] makes no left turn with the last two points of the chain.
NoLeftTurn ==
    /\ Len(S) >= 2
    /\ ~Left_turn_2(S[Len(S) - 1], S[Len(S)], V[i])

Front(seq) == SubSeq(seq, 1, Len(seq) - 1)

frame == <<a, b, p0, p1, p2, out, steps>>

\* Sort the points by Less_xy_2; the order of equivalent points is any.
Sort ==
    /\ pc = "start"
    /\ V' \in Sorted(1..Len(points))
    /\ pc' = "sorted"
    /\ UNCHANGED <<frame, points, S, lower, i, chull>>

\* Collapse the duplicates; up to two distinct points are their own hull.
Collapse ==
    /\ pc = "sorted"
    /\ LET U == Unique(<< >>, V)
       IN  /\ V' = U
           /\ IF Len(U) <= 2
              THEN pc' = "done" /\ chull' = U /\ i' = i
              ELSE pc' = "lower" /\ chull' = chull /\ i' = 1
    /\ UNCHANGED <<frame, points, S, lower>>

PopLower ==
    /\ pc = "lower"
    /\ i <= Len(V)
    /\ NoLeftTurn
    /\ S' = Front(S)
    /\ UNCHANGED <<frame, pc, points, V, lower, i, chull>>

PushLower ==
    /\ pc = "lower"
    /\ i <= Len(V)
    /\ ~NoLeftTurn
    /\ S' = Append(S, V[i])
    /\ i' = i + 1
    /\ UNCHANGED <<frame, pc, points, V, lower, chull>>

EndLower ==
    /\ pc = "lower"
    /\ i > Len(V)
    /\ lower' = S
    /\ S' = << >>
    /\ i' = Len(V)
    /\ pc' = "upper"
    /\ UNCHANGED <<frame, points, V, chull>>

PopUpper ==
    /\ pc = "upper"
    /\ i >= 1
    /\ NoLeftTurn
    /\ S' = Front(S)
    /\ UNCHANGED <<frame, pc, points, V, lower, i, chull>>

PushUpper ==
    /\ pc = "upper"
    /\ i >= 1
    /\ ~NoLeftTurn
    /\ S' = Append(S, V[i])
    /\ i' = i - 1
    /\ UNCHANGED <<frame, pc, points, V, lower, chull>>

\* The last point of a chain is the first of the other.
EndUpper ==
    /\ pc = "upper"
    /\ i < 1
    /\ chull' = Front(lower) \o Front(S)
    /\ pc' = "done"
    /\ UNCHANGED <<frame, points, V, S, lower, i>>

NextHull ==
    \/ Sort \/ Collapse
    \/ PopLower \/ PushLower \/ EndLower
    \/ PopUpper \/ PushUpper \/ EndUpper

SpecHull == InitHull /\ [][NextHull]_vars

----------------------------------------------------------------------------
(* Sequences of operations: the results of +, -, *, of the point           *)
(* operations and of cross are fed back as operands.  a and b start with   *)
(* strictly positive denominators, and the points are made of them.        *)

PosFracs == { f \in Fracs : f.den > 0 }

InitSeq ==
    /\ pc = "init"
    /\ a \in PosFracs
    /\ b \in PosFracs
    /\ p0 = FracPoint2(a, b)
    /\ p1 = FracPoint2(b, a)
    /\ p2 = FracPoint2(FracDefault, FracInt(1))
    /\ out = NoOut
    /\ steps = 0
    /\ NoScan

\* one more operation, named name, has been applied
Step(name) ==
    /\ steps < MaxSteps
    /\ steps' = steps + 1
    /\ pc' = name
    /\ UNCHANGED scanVars

\* a = a + b
SeqAdd ==
    /\ Step("add")
    /\ a' = op_add(a, b)
    /\ UNCHANGED <<b, p0, p1, p2, out>>

\* a = a - b
SeqSub ==
    /\ Step("sub")
    /\ a' = op_sub(a, b)
    /\ UNCHANGED <<b, p0, p1, p2, out>>

\* b = a * b
SeqMul ==
    /\ Step("mul")
    /\ b' = op_mul(a, b)
    /\ UNCHANGED <<a, p0, p1, p2, out>>

\* p0 = p0 + p1
SeqPointAdd ==
    /\ Step("pt_add")
    /\ p0' = pt_add(p0, p1)
    /\ UNCHANGED <<a, b, p1, p2, out>>

\* p1 = p1 - p0
SeqPointSub ==
    /\ Step("pt_sub")
    /\ p1' = pt_sub(p1, p0)
    /\ UNCHANGED <<a, b, p0, p2, out>>

\* p2 = a * p0, the scalar on the left
SeqScaleLeft ==
    /\ Step("scale_left")
    /\ p2' = pt_scale(a, p0)
    /\ UNCHANGED <<a, b, p0, p1, out>>

\* p2 = p1 * b, the scalar on the right
SeqScaleRight ==
    /\ Step("scale_right")
    /\ p2' = pt_scale(b, p1)
    /\ UNCHANGED <<a, b, p0, p1, out>>

\* a = cross(p0, p1)
SeqCross ==
    /\ Step("cross")
    /\ a' = cross(p0, p1)
    /\ UNCHANGED <<b, p0, p1, p2, out>>

\* Left_turn_2()(p0, p1, p2), with the two differences and the tv it tests
SeqLeftTurn ==
    /\ Step("left_turn")
    /\ out' = [kind |-> "turn",
               d1   |-> pt_sub(p1, p0),
               d2   |-> pt_sub(p2, p0),
               tv   |-> cross(pt_sub(p1, p0), pt_sub(p2, p0)),
               val  |-> Left_turn_2(p0, p1, p2)]
    /\ UNCHANGED <<a, b, p0, p1, p2>>

NextSeq ==
    \/ SeqAdd \/ SeqSub \/ SeqMul
    \/ SeqPointAdd \/ SeqPointSub
    \/ SeqScaleLeft \/ SeqScaleRight
    \/ SeqCross \/ SeqLeftTurn

SpecSeq == InitSeq /\ [][NextSeq]_vars

----------------------------------------------------------------------------
(* Frac over ll of a fixed width.  The operators are those of class Frac,  *)
(* with every product, sum and difference computed in ll.  The code checks *)
(* none of them.  A result that ll cannot represent is a signed overflow,  *)
(* which C++ leaves undefined: the machine's multiply and add wrap around, *)
(* and the compiler may assume the overflow away, so the operation yields  *)
(* the wrapped value or some other value of ll.                            *)

LLMax == 2^(LLBits - 1) - 1
LLMin == -(2^(LLBits - 1))
LL == LLMin..LLMax

\* x is representable in ll
Fits(x) == x \in LL

\* x reduced to the width of ll, as two's complement arithmetic does
Wrap(x) == ((x - LLMin) % 2^LLBits) + LLMin

\* the least value whose square ll cannot represent
Half == 2^(LLBits \div 2)

\* other values an overflowed operation may leave behind
Leftover == {LLMin, -1, 0, 1, LLMax}

\* what an operation of ll yields whose exact result is x
Yields(x) == IF Fits(x) THEN {x} ELSE {Wrap(x)} \cup Leftover

\* x * y in integers of unbounded width
ll_mul_unbounded(x, y) == {x * y}

\* x * y, x + y and x - y in ll
ll_mul(x, y) == Yields(x * y)
ll_plus(x, y) == Yields(x + y)
ll_minus(x, y) == Yields(x - y)

\* std::gcd(m, n) in ll: the library computes it on the magnitudes, in the
\* unsigned type, and converts the result back to ll.
ll_gcd(m, n) == Wrap(std_gcd(m, n))

\* x /= g in ll, for a g of either sign: truncation toward zero
ll_quot(x, g) ==
    IF (x >= 0) = (g > 0)
    THEN Abs(x) \div Abs(g)
    ELSE -(Abs(x) \div Abs(g))

\* the reduction in ll
ll_Reduce(raw) ==
    LET new_gcd == ll_gcd(raw.num, raw.den)
    IN  IF new_gcd # 0
        THEN Frac(ll_quot(raw.num, new_gcd), ll_quot(raw.den, new_gcd))
        ELSE raw

\* the two products every comparison operator compares
ll_products(f, other) ==
    { <<l, r>> : l \in ll_mul(f.num, other.den),
                 r \in ll_mul(other.num, f.den) }

\* operators <, <=, >, >= and ==: the values each may return
ll_lt(f, other) == { lr[1] < lr[2] : lr \in ll_products(f, other) }
ll_le(f, other) == { lr[1] <= lr[2] : lr \in ll_products(f, other) }
ll_gt(f, other) == { lr[1] > lr[2] : lr \in ll_products(f, other) }
ll_ge(f, other) == { lr[1] >= lr[2] : lr \in ll_products(f, other) }
ll_eq(f, other) == { lr[1] = lr[2] : lr \in ll_products(f, other) }

\* operator +: the values it may return
ll_add(f, other) ==
    { ll_Reduce(Frac(n, d)) :
        n \in UNION { ll_plus(l, r) : l \in ll_mul(f.num, other.den),
                                      r \in ll_mul(f.den, other.num) },
        d \in ll_mul(f.den, other.den) }

\* operator -
ll_sub(f, other) ==
    { ll_Reduce(Frac(n, d)) :
        n \in UNION { ll_minus(l, r) : l \in ll_mul(f.num, other.den),
                                       r \in ll_mul(f.den, other.num) },
        d \in ll_mul(f.den, other.den) }

\* operator *
ll_times(f, other) ==
    { ll_Reduce(Frac(n, d)) : n \in ll_mul(f.num, other.num),
                              d \in ll_mul(f.den, other.den) }

\* operator /
ll_div(f, other) ==
    { ll_Reduce(Frac(n, d)) : n \in ll_mul(f.num, other.den),
                              d \in ll_mul(f.den, other.num) }

\* some product of a comparison is not representable
CmpOverflows(f, other) ==
    ~Fits(f.num * other.den) \/ ~Fits(other.num * f.den)

\* some product, the sum or difference, or the gcd of an arithmetic operator
\* is not representable
RawOverflows(raw) ==
    ~Fits(raw.num) \/ ~Fits(raw.den) \/ ~Fits(std_gcd(raw.num, raw.den))

AddOverflows(f, other) ==
    CmpOverflows(f, other) \/ RawOverflows(raw_add(f, other))

SubOverflows(f, other) ==
    CmpOverflows(f, other) \/ RawOverflows(raw_sub(f, other))

MulOverflows(f, other) == RawOverflows(raw_mul(f, other))

DivOverflows(f, other) == RawOverflows(raw_div(f, other))

\* representable values around zero and at both ends of the range
LLSample == {LLMin, -Half, -1, 0, 1, 2, Half, LLMax}

LLFracs == { Frac(n, d) : n \in LLSample, d \in LLSample }

InitLL ==
    /\ pc = "init"
    /\ a \in LLFracs
    /\ b \in LLFracs
    /\ p0 = Origin
    /\ p1 = Origin
    /\ p2 = Origin
    /\ out = NoOut
    /\ steps = 0
    /\ NoScan

\* what a comparison returned, and whether a product overflowed
Compared(v, overflow) ==
    [kind |-> "bool", val |-> v, overflow |-> overflow]

\* what an arithmetic operator returned, and whether a step overflowed
Computed(v, overflow) ==
    [kind |-> "frac", val |-> v, overflow |-> overflow]

LLLt ==
    /\ pc = "init"
    /\ \E v \in ll_lt(a, b) : Return("lt", Compared(v, CmpOverflows(a, b)))

LLLe ==
    /\ pc = "init"
    /\ \E v \in ll_le(a, b) : Return("le", Compared(v, CmpOverflows(a, b)))

LLGt ==
    /\ pc = "init"
    /\ \E v \in ll_gt(a, b) : Return("gt", Compared(v, CmpOverflows(a, b)))

LLGe ==
    /\ pc = "init"
    /\ \E v \in ll_ge(a, b) : Return("ge", Compared(v, CmpOverflows(a, b)))

LLEq ==
    /\ pc = "init"
    /\ \E v \in ll_eq(a, b) : Return("eq", Compared(v, CmpOverflows(a, b)))

LLAdd ==
    /\ pc = "init"
    /\ \E v \in ll_add(a, b) : Return("add", Computed(v, AddOverflows(a, b)))

LLSub ==
    /\ pc = "init"
    /\ \E v \in ll_sub(a, b) : Return("sub", Computed(v, SubOverflows(a, b)))

LLMul ==
    /\ pc = "init"
    /\ \E v \in ll_times(a, b) :
          Return("mul", Computed(v, MulOverflows(a, b)))

LLDiv ==
    /\ pc = "init"
    /\ \E v \in ll_div(a, b) : Return("div", Computed(v, DivOverflows(a, b)))

NextLL ==
    \/ LLLt \/ LLLe \/ LLGt \/ LLGe \/ LLEq
    \/ LLAdd \/ LLSub \/ LLMul \/ LLDiv

SpecLL == InitLL /\ [][NextLL]_vars

----------------------------------------------------------------------------
(* The collinearity tests of Part II and Part III.  A coordinate is held   *)
(* as the decimal literal the program writes, 0.3 as 3/10.  What becomes   *)
(* of it depends on the kernel: Simple_cartesian<double> and the point     *)
(* constructors of Part III convert it to the nearest double; the stream   *)
(* extraction of the exact kernel reads it as the rational it denotes.     *)
(* A double is sign * m * 2^e with m of at most DoublePrecision bits;      *)
(* m is a natural number of any size, a sequence of limbs with the least   *)
(* significant first and no leading zero.  The magnitudes here stay far    *)
(* from the ends of the exponent range, which is left unbounded.           *)

\* the significand of a double, the number type of Simple_cartesian<double>,
\* has 53 bits
DoublePrecision == 53

\* a natural number is held in limbs of LimbBits bits
LimbBits == 15

Base == 2^LimbBits

RECURSIVE Norm(_)
Norm(m) ==
    IF m = <<>> THEN <<>>
    ELSE IF m[Len(m)] = 0 THEN Norm(SubSeq(m, 1, Len(m) - 1))
    ELSE m

RECURSIVE NatLimbs(_)
NatLimbs(n) == IF n = 0 THEN <<>> ELSE <<n % Base>> \o NatLimbs(n \div Base)

RECURSIVE AddCarry(_, _, _)
AddCarry(x, y, cin) ==
    IF x = <<>> /\ y = <<>>
    THEN IF cin = 1 THEN <<1>> ELSE <<>>
    ELSE LET lx == IF x = <<>> THEN 0 ELSE Head(x)
             ly == IF y = <<>> THEN 0 ELSE Head(y)
             t  == lx + ly + cin
         IN  <<t % Base>> \o AddCarry(IF x = <<>> THEN <<>> ELSE Tail(x),
                                      IF y = <<>> THEN <<>> ELSE Tail(y),
                                      t \div Base)

BigAdd(x, y) == AddCarry(x, y, 0)

RECURSIVE SubBorrow(_, _, _)
SubBorrow(x, y, bin) ==
    IF x = <<>> THEN <<>>
    ELSE LET ly == IF y = <<>> THEN 0 ELSE Head(y)
             t  == Head(x) - ly - bin
         IN  <<t % Base>> \o SubBorrow(Tail(x),
                                       IF y = <<>> THEN <<>> ELSE Tail(y),
                                       IF t < 0 THEN 1 ELSE 0)

\* x - y for x >= y
BigSub(x, y) == Norm(SubBorrow(x, y, 0))

BigLess(x, y) ==
    \/ Len(x) < Len(y)
    \/ /\ Len(x) = Len(y)
       /\ \E j \in 1..Len(x) :
             /\ x[j] < y[j]
             /\ \A k \in (j + 1)..Len(x) : x[k] = y[k]

\* x * d + cin for a d and a cin below Base
RECURSIVE MulSmall(_, _, _)
MulSmall(x, d, cin) ==
    IF x = <<>> THEN (IF cin = 0 THEN <<>> ELSE <<cin>>)
    ELSE LET t == Head(x) * d + cin
         IN  <<t % Base>> \o MulSmall(Tail(x), d, t \div Base)

\* x * Base^n
ShiftLimbs(x, n) ==
    IF x = <<>> \/ n = 0 THEN x ELSE [j \in 1..n |-> 0] \o x

\* x * 2^n
Shl(x, n) ==
    ShiftLimbs(MulSmall(x, 2^(n % LimbBits), 0), n \div LimbBits)

RECURSIVE BigMul(_, _)
BigMul(x, y) ==
    IF x = <<>> \/ y = <<>> THEN <<>>
    ELSE BigAdd(MulSmall(y, Head(x), 0), ShiftLimbs(BigMul(Tail(x), y), 1))

\* quotient and remainder of x by a d below Base, by long division
RECURSIVE DivSmall(_, _)
DivSmall(x, d) ==
    IF x = <<>> THEN [q |-> <<>>, r |-> 0]
    ELSE LET hi == DivSmall(Tail(x), d)
             t  == hi.r * Base + Head(x)
         IN  [q |-> <<t \div d>> \o hi.q, r |-> t % d]

\* x \div 2^n, and whether the division is exact
Shr(x, n) ==
    LET whole == Min2(n \div LimbBits, Len(x))
        qr == DivSmall(SubSeq(x, whole + 1, Len(x)), 2^(n % LimbBits))
    IN  [q |-> Norm(qr.q),
         exact |-> qr.r = 0 /\ \A j \in 1..whole : x[j] = 0]

\* the number of bits of x
BitLen(x) ==
    IF x = <<>> THEN 0
    ELSE LimbBits * (Len(x) - 1)
            + CHOOSE n \in 1..LimbBits :
                  2^(n - 1) <= x[Len(x)] /\ x[Len(x)] < 2^n

Odd(x) == x # <<>> /\ Head(x) % 2 = 1

\* sign * m * 2^e
Dy(neg, m, e) == [neg |-> neg /\ m # <<>>, m |-> m, e |-> e]

DyNeg(v) == Dy(~v.neg, v.m, v.e)

\* x + y, exactly
DyAdd(x, y) ==
    LET e  == IF x.e < y.e THEN x.e ELSE y.e
        mx == Shl(x.m, x.e - e)
        my == Shl(y.m, y.e - e)
    IN  IF x.neg = y.neg THEN Dy(x.neg, BigAdd(mx, my), e)
        ELSE IF BigLess(mx, my) THEN Dy(y.neg, BigSub(my, mx), e)
        ELSE Dy(x.neg, BigSub(mx, my), e)

\* x - y, exactly
DySub(x, y) == DyAdd(x, DyNeg(y))

\* x * y, exactly
DyMul(x, y) == Dy(x.neg # y.neg, BigMul(x.m, y.m), x.e + y.e)

\* -1, 0 or 1 as x is less than, equal to or greater than y
DyCompare(x, y) ==
    LET d == DySub(x, y)
    IN  IF d.m = <<>> THEN 0 ELSE IF d.neg THEN -1 ELSE 1

\* v rounded to a significand of prec bits, to nearest, ties to even: of
\* the n bits too many, the highest is the guard bit and the rest are
\* sticky
RoundTo(prec, v) ==
    LET n      == BitLen(v.m) - prec
        above  == Shr(v.m, n - 1)
        guard  == Odd(above.q)
        sticky == ~above.exact
        kept   == Shr(above.q, 1).q
        up     == guard /\ (sticky \/ Odd(kept))
    IN  IF n <= 0 THEN v
        ELSE Dy(v.neg, IF up THEN BigAdd(kept, <<1>>) ELSE kept, v.e + n)

Round(v) == RoundTo(DoublePrecision, v)

\* the double nearest to the decimal literal lit.num / lit.den: the
\* quotient is taken with two bits more than the significand holds and a
\* last bit that says whether the division left a remainder, then rounded
ToDouble(lit) ==
    LET shift == DoublePrecision + BitLen(NatLimbs(lit.den)) + 2
        qr == DivSmall(Shl(NatLimbs(Abs(lit.num)), shift), lit.den)
    IN  IF lit.num = 0 THEN Dy(FALSE, <<>>, 0)
        ELSE Round(Dy(lit.num < 0,
                      MulSmall(Norm(qr.q), 2, IF qr.r = 0 THEN 0 ELSE 1),
                      -shift - 1))

\* Point_2(x, y) of Simple_cartesian<double>, and of the exact kernel when
\* constructed from doubles
DoublePoint(p) == [x |-> ToDouble(p.x), y |-> ToDouble(p.y)]

\* the operators of double
double_sub(x, y) == Round(DySub(x, y))
double_mul(x, y) == Round(DyMul(x, y))

\* CGAL::collinear(p, q, r) over double: the orientation of p, q, r is the
\* sign of the determinant | qx-px  qy-py ; rx-px  ry-py |, found by
\* comparing (qx-px) * (ry-py) with (rx-px) * (qy-py)
collinear_double(p, q, r) ==
    DyCompare(double_mul(double_sub(q.x, p.x), double_sub(r.y, p.y)),
              double_mul(double_sub(r.x, p.x), double_sub(q.y, p.y))) = 0

\* CGAL::collinear(p, q, r) of the exact kernel on points constructed from
\* doubles: the same comparison, nothing rounded
collinear_exact_of_double(p, q, r) ==
    DyCompare(DyMul(DySub(q.x, p.x), DySub(r.y, p.y)),
              DyMul(DySub(r.x, p.x), DySub(q.y, p.y))) = 0

\* CGAL::collinear(p, q, r) of the exact kernel on points read from text:
\* the coordinates are the rationals the text denotes
collinear_exact(p, q, r) ==
    op_eq(op_mul(op_sub(q.x, p.x), op_sub(r.y, p.y)),
          op_mul(op_sub(r.x, p.x), op_sub(q.y, p.y)))

\* a decimal literal with one digit after the point
Tenths(n) == Frac(n, 10)

\* the point (x, y) given in tenths
Literal(x, y) == FracPoint2(Tenths(x), Tenths(y))

\* Part II and Part III, block 3: Point_2 p(0, 0), q(1, 1), r(2, 2)
Block3 == <<Literal(0, 0), Literal(10, 10), Literal(20, 20)>>

\* Part II and Part III, block 1: Point_2 p(0, 0.3), q(1, 0.6), r(2, 0.9)
Block1 == <<Literal(0, 3), Literal(10, 6), Literal(20, 9)>>

\* Part III, block 4: the texts "0 0.3", "0 0.6" and "0 0.9"
Block4 == <<Literal(0, 3), Literal(0, 6), Literal(0, 9)>>

\* the x coordinates of the blocks, in tenths
XPatterns == {<<0, 10, 20>>, <<0, 0, 0>>}

\* y coordinates, in tenths
YSeq == <<3, 6, 9, 0, 10, 20, 1, 7>>

Ys == { YSeq[k] : k \in 1..Min2(MaxYs, Len(YSeq)) }

InitCollinear ==
    /\ pc = "init"
    /\ a = FracDefault
    /\ b = FracDefault
    /\ \E xs \in XPatterns :
          /\ p0 \in { Literal(xs[1], y) : y \in Ys }
          /\ p1 \in { Literal(xs[2], y) : y \in Ys }
          /\ p2 \in { Literal(xs[3], y) : y \in Ys }
    /\ out = NoOut
    /\ steps = 0
    /\ NoScan

\* Part II: CGAL::collinear with Simple_cartesian<double>
CollinearDouble ==
    /\ pc = "init"
    /\ Return("double",
              [kind |-> "verdict",
               val  |-> collinear_double(DoublePoint(p0), DoublePoint(p1),
                                         DoublePoint(p2))])

\* Part III, blocks 1 to 3: the exact kernel on points made of doubles
CollinearExactOfDouble ==
    /\ pc = "init"
    /\ Return("exact_of_double",
              [kind |-> "verdict",
               val  |-> collinear_exact_of_double(DoublePoint(p0),
                                                  DoublePoint(p1),
                                                  DoublePoint(p2))])

\* Part III, blocks 4 to 6: the exact kernel on points read from text
CollinearExact ==
    /\ pc = "init"
    /\ Return("exact", [kind |-> "verdict",
                        val  |-> collinear_exact(p0, p1, p2)])

NextCollinear ==
    \/ CollinearDouble
    \/ CollinearExactOfDouble
    \/ CollinearExact

SpecCollinear == InitCollinear /\ [][NextCollinear]_vars

----------------------------------------------------------------------------
(* The exact value of a rational, for stating the claims.  Scale is a      *)
(* common multiple of every operand denominator, so Scale * num / den is   *)
(* an integer and two rationals compare as these integers do.              *)

RECURSIVE Factorial(_)
Factorial(n) == IF n <= 1 THEN 1 ELSE n * Factorial(n - 1)

\* the largest denominator, in absolute value, of an operand
MaxAbsDen ==
    LET D == {MaxDen} \cup { Abs(f.den) : f \in Coords }
                      \cup { Abs(p.x.den) : p \in HullPool }
                      \cup { Abs(p.y.den) : p \in HullPool }
    IN  CHOOSE m \in D : \A d \in D : d <= m

Scale == Factorial(MaxAbsDen)

\* Scale * f.num / f.den, for f.den # 0
Val(f) ==
    IF f.den > 0
    THEN f.num * (Scale \div f.den)
    ELSE (-f.num) * (Scale \div (-f.den))

\* the comparison of two integers that the operator named by pc stands for
MathCmp(o, x, y) ==
    CASE o = "lt" -> x < y
      [] o = "le" -> x <= y
      [] o = "gt" -> x > y
      [] o = "ge" -> x >= y
      [] o = "eq" -> x = y

\* the comparison of the two cross products, as the specification words it
CrossCmp(o, f, g) == MathCmp(o, f.num * g.den, g.num * f.den)

\* no integer above 1 divides both m and n
Coprime(m, n) ==
    \A k \in 2..(Abs(m) + Abs(n)) : ~(m % k = 0 /\ n % k = 0)

----------------------------------------------------------------------------
(* The claims about Frac. *)

\* C1: with both denominators strictly positive, each of <, <=, >, >=, ==
\* returns the comparison of the cross products an*bd and bn*ad, and that
\* is the comparison of the values an/ad and bn/bd.
C1_ComparePositiveDen ==
    (pc \in {"lt", "le", "gt", "ge", "eq"} /\ a.den > 0 /\ b.den > 0)
        => /\ out.val = CrossCmp(pc, a, b)
           /\ out.val = MathCmp(pc, Val(a), Val(b))

\* 1/2 <= 2/2 has been evaluated, and is true
C1_Witness ==
    /\ pc = "le"
    /\ a = Frac(1, 2)
    /\ b = Frac(2, 2)
    /\ out.val = TRUE

\* C2: with non-zero denominators of which exactly one is negative, and
\* different values, each of <, <=, >, >= returns the opposite of the
\* comparison of the values.
C2_CompareOneNegativeDen ==
    (/\ pc \in {"lt", "le", "gt", "ge"}
     /\ a.den # 0 /\ b.den # 0
     /\ (a.den < 0) # (b.den < 0)
     /\ Val(a) # Val(b))
        => out.val = ~MathCmp(pc, Val(a), Val(b))

\* 1/-2 > 1/2 has been evaluated, and is true though -1/2 > 1/2 is not
C2_Witness ==
    /\ pc = "gt"
    /\ a = Frac(1, -2)
    /\ b = Frac(1, 2)
    /\ out.val = TRUE

\* C3: after +, -, * or / on any operands, a result with a non-zero
\* denominator that does not represent zero has coprime numerator and
\* denominator.
C3_ResultReduced ==
    (/\ pc \in {"add", "sub", "mul", "div"}
     /\ out.val.den # 0
     /\ out.val.num # 0)
        => Coprime(Abs(out.val.num), Abs(out.val.den))

\* 1/2 + 1/2 has been evaluated: 4/4 was reduced to 1/1
C3_Witness ==
    /\ pc = "add"
    /\ a = Frac(1, 2)
    /\ b = Frac(1, 2)
    /\ out.val = Frac(1, 1)

\* C8: with positive denominators, (a + b) == (b + a) and
\* (a * b) == (b * a) evaluate to true.
C8_Commutative ==
    (pc \in {"add_comm", "mul_comm"} /\ a.den > 0 /\ b.den > 0)
        => out.val = TRUE

\* 1/2 + -1/1 and -1/1 + 1/2 have been evaluated and compared
C8_Witness ==
    /\ pc = "add_comm"
    /\ a = Frac(1, 2)
    /\ b = Frac(-1, 1)
    /\ out.lhs = Frac(-1, 2)
    /\ out.val = TRUE

\* C9: with a non-zero denominator, (a - a) == Frac(0) evaluates to true;
\* with a non-zero numerator as well, (a / a) == Frac(1) evaluates to true.
C9_SelfInverse ==
    /\ (pc = "sub_self" /\ a.den # 0) => out.val = TRUE
    /\ (pc = "div_self" /\ a.den # 0 /\ a.num # 0) => out.val = TRUE

\* -2/2 / -2/2 has been evaluated and compared with 1/1
C9_Witness ==
    /\ pc = "div_self"
    /\ a = Frac(-2, 2)
    /\ out.lhs.num = out.lhs.den
    /\ out.val = TRUE

\* C10: positive() is true exactly when numerator and denominator are both
\* strictly positive or both strictly negative, which for a non-zero
\* denominator is when the value is above zero; it is false for a zero
\* numerator.
C10_Positive ==
    pc = "positive"
        => /\ out.val = (a.num * a.den > 0)
           /\ a.den # 0 => out.val = (Val(a) > 0)
           /\ a.num = 0 => out.val = FALSE

\* positive() of -1/-2 has been evaluated, and is true
C10_Witness ==
    /\ pc = "positive"
    /\ a = Frac(-1, -2)
    /\ out.val = TRUE

----------------------------------------------------------------------------
(* The claims about the Traits predicates. *)

\* Scale * Scale * the cross product of (q1 - q0) and (q2 - q0), exactly
MathCross(q0, q1, q2) ==
    (Val(q1.x) - Val(q0.x)) * (Val(q2.y) - Val(q0.y))
        - (Val(q2.x) - Val(q0.x)) * (Val(q1.y) - Val(q0.y))

\* C4: Left_turn_2(p0, p1, p2) is true exactly when the exact cross product
\* of (p1 - p0) and (p2 - p0) is strictly positive, negative denominators
\* included.
C4_LeftTurnIsCrossSign ==
    pc = "left_turn" => out.val = (MathCross(p0, p1, p2) > 0)

\* a left turn found at points written with negative denominators, with a
\* negative denominator in the tv that was tested
C4_Witness ==
    /\ pc = "left_turn"
    /\ p0.x.den < 0 /\ p1.y.den < 0 /\ p2.x.den < 0
    /\ out.tv.den < 0
    /\ out.val = TRUE

\* C5: Less_xy_2 is irreflexive and transitive, and exactly one of
\* Less_xy_2(p, q), Less_xy_2(q, p), Equal_2(p, q) holds, for points with
\* non-zero denominators.
C5_StrictTotalOrder ==
    pc = "order"
        => /\ ~out.pp
           /\ (out.pq /\ out.qr) => out.pr
           /\ \/ out.pq /\ ~out.qp /\ ~out.eq
              \/ ~out.pq /\ out.qp /\ ~out.eq
              \/ ~out.pq /\ ~out.qp /\ out.eq

\* C7: if Left_turn_2(p0, p1, p2) is true then Left_turn_2(p0, p2, p1) is
\* false.
C7_TurnAntisymmetric ==
    pc = "turn_antisym" => (out.fwd => ~out.bwd)

\* a left turn whose reverse was tested and found not to be one, at points
\* with a negative denominator
C7_Witness ==
    /\ pc = "turn_antisym"
    /\ p1.x.den < 0
    /\ out.fwd = TRUE
    /\ out.bwd = FALSE

----------------------------------------------------------------------------
(* The claim about the convex hull.  The hull is stated from the exact     *)
(* values of the points, not from the predicates.                          *)

SameValue(p, q) == Val(p.x) = Val(q.x) /\ Val(p.y) = Val(q.y)

\* v lies on the closed segment from q to r
OnSegment(v, q, r) ==
    /\ MathCross(q, r, v) = 0
    /\ (Val(v.x) - Val(q.x)) * (Val(v.x) - Val(r.x)) <= 0
    /\ (Val(v.y) - Val(q.y)) * (Val(v.y) - Val(r.y)) <= 0

\* v lies in the closed triangle q, r, s, which is not flat
InTriangle(v, q, r, s) ==
    /\ MathCross(q, r, s) # 0
    /\ LET d1 == MathCross(q, r, v)
           d2 == MathCross(r, s, v)
           d3 == MathCross(s, q, v)
       IN  \/ d1 >= 0 /\ d2 >= 0 /\ d3 >= 0
           \/ d1 <= 0 /\ d2 <= 0 /\ d3 <= 0

\* v is a vertex of the convex hull of the points of seq: it is not in the
\* convex hull of the points of seq that differ from it, that is, on no
\* segment and in no triangle of them.
IsHullVertex(v, seq) ==
    LET others == { seq[k] : k \in { j \in 1..Len(seq) : ~SameValue(seq[j], v) } }
    IN  /\ \A q, r \in others : ~OnSegment(v, q, r)
        /\ \A q, r, s \in others : ~InTriangle(v, q, r, s)

\* hull is the counter-clockwise sequence of the hull vertices of seq,
\* each once
IsCcwHullOf(hull, seq) ==
    LET n == Len(hull)
        next(k) == IF k = n THEN 1 ELSE k + 1
    IN  /\ \A k \in 1..n :
              /\ \E j \in 1..Len(seq) : seq[j] = hull[k]
              /\ IsHullVertex(hull[k], seq)
        /\ \A j \in 1..Len(seq) :
              IsHullVertex(seq[j], seq)
                  => \E k \in 1..n : SameValue(hull[k], seq[j])
        /\ \A j, k \in 1..n : j # k => ~SameValue(hull[j], hull[k])
        /\ n >= 3 =>
              \A k \in 1..n : \A j \in 1..n \ {k, next(k)} :
                  MathCross(hull[k], hull[next(k)], hull[j]) > 0

\* C6: the scan returns exactly the input points that are vertices of the
\* convex hull, counter-clockwise, each once; for the four points of main
\* these are three, without (1/2, 1/4).
C6_ScanReturnsHull ==
    pc = "done"
        => /\ IsCcwHullOf(chull, points)
           /\ points = MainPoints =>
                 /\ Len(chull) = 3
                 /\ \A k \in 1..3 : chull[k] # MainPoints[4]

\* the scan has ended on the points of main
C6_Witness ==
    /\ pc = "done"
    /\ points = MainPoints
    /\ chull = << MainPoints[1], MainPoints[2], MainPoints[3] >>

----------------------------------------------------------------------------
(* The claims about the reduction and about division. *)

Sign(x) == IF x > 0 THEN 1 ELSE IF x < 0 THEN -1 ELSE 0

\* g is the greatest common divisor of m and n, not both 0: it divides
\* both, and nothing larger does
IsGcd(g, m, n) ==
    /\ g > 0 /\ m % g = 0 /\ n % g = 0
    /\ \A k \in (g + 1)..(Abs(m) + Abs(n)) : ~(m % k = 0 /\ n % k = 0)

\* C11: in +, -, * and / the reduction divides by g = gcd(new_num, new_den)
\* exactly when g # 0, and g = 0 only when new_num and new_den are both 0;
\* so nothing is divided by zero, whatever the operands (zero denominators
\* included).
C11_ReductionGuard ==
    pc \in {"add", "sub", "mul", "div"}
        => /\ out.divides = (out.new_gcd # 0)
           /\ out.new_gcd = 0 => (out.raw.num = 0 /\ out.raw.den = 0)
           /\ ~(out.divides /\ out.new_gcd = 0)

\* 0/1 / 0/1 has been evaluated: new_num and new_den are 0, the gcd is 0
\* and the division is skipped
C11_Witness ==
    /\ pc = "div"
    /\ a = Frac(0, 1) /\ b = Frac(0, 1)
    /\ out.new_gcd = 0
    /\ out.divides = FALSE
    /\ out.val = Frac(0, 0)

\* C15: a / b has numerator a.num*b.den and denominator a.den*b.num, each
\* divided by their gcd when that is not 0, and is returned as it is: with
\* positive operand denominators the sign of its denominator is the sign of
\* b's numerator, so a negative b gives a negative denominator and a
\* zero-valued b gives 1/0, -1/0 or 0/0.  The point division is two such
\* divisions.
C15_Division ==
    /\ pc = "div" =>
          /\ out.kind = "frac"
          /\ out.raw = Frac(a.num * b.den, a.den * b.num)
          /\ IF out.raw.num = 0 /\ out.raw.den = 0
             THEN out.val = out.raw
             ELSE \E g \in 1..(Abs(out.raw.num) + Abs(out.raw.den)) :
                     /\ IsGcd(g, out.raw.num, out.raw.den)
                     /\ out.val.num * g = out.raw.num
                     /\ out.val.den * g = out.raw.den
          /\ (a.den > 0 /\ b.den > 0) =>
                /\ Sign(out.val.den) = Sign(b.num)
                /\ b.num = 0 =>
                      out.val \in {Frac(1, 0), Frac(-1, 0), Frac(0, 0)}
    /\ (pc = "pt_div" /\ a.den > 0 /\ b.den > 0) =>
          /\ out.kind = "point"
          /\ Sign(out.val.x.den) = Sign(b.num)
          /\ Sign(out.val.y.den) = Sign(b.num)

\* 1/2 / -2/1 has been evaluated: the result is 1/-4
C15_Witness ==
    /\ pc = "div"
    /\ a = Frac(1, 2) /\ b = Frac(-2, 1)
    /\ out.val = Frac(1, -4)

\* 2/1 / 0/2 has been evaluated: the result is 1/0
C15_WitnessZero ==
    /\ pc = "div"
    /\ a = Frac(2, 1) /\ b = Frac(0, 2)
    /\ out.val = Frac(1, 0)

----------------------------------------------------------------------------
(* The claim about sequences of operations. *)

PosPoint(p) == p.x.den > 0 /\ p.y.den > 0

\* C14: +, - and * keep denominators strictly positive, so after any
\* sequence of +, -, *, point addition, point subtraction, scalar
\* multiplication and cross on inputs with strictly positive denominators
\* every rational produced has a strictly positive denominator, the tv
\* tested in Left_turn_2 and the differences it is made of included.
C14_PositiveDenPreserved ==
    /\ a.den > 0 /\ b.den > 0
    /\ PosPoint(p0) /\ PosPoint(p1) /\ PosPoint(p2)
    /\ out.kind = "turn" =>
          PosPoint(out.d1) /\ PosPoint(out.d2) /\ out.tv.den > 0

\* a left turn has been tested after another operation, on a tv whose
\* numerator is negative
C14_Witness ==
    /\ pc = "left_turn"
    /\ steps > 1
    /\ out.tv.num < 0
    /\ out.tv.den > 1

----------------------------------------------------------------------------
(* The claim about the width of ll. *)

\* the comparison of f with other that operator pc names, its two products
\* taken in integers of unbounded width
ExactCompare(f, other) ==
    CASE pc = "lt" -> op_lt(f, other)
      [] pc = "le" -> op_le(f, other)
      [] pc = "gt" -> op_gt(f, other)
      [] pc = "ge" -> op_ge(f, other)
      [] pc = "eq" -> op_eq(f, other)

\* likewise the result of the arithmetic operator pc names
ExactArith(f, other) ==
    CASE pc = "add" -> op_add(f, other)
      [] pc = "sub" -> op_sub(f, other)
      [] pc = "mul" -> op_mul(f, other)
      [] pc = "div" -> op_div(f, other)

\* C12: the operators of Frac compute their products in ll and check no
\* overflow: on operands that ll represents, a comparison returns a boolean
\* and an arithmetic operator a rational of two ll values, never an error,
\* also when a product is not representable; the result is the exact one
\* whenever nothing overflowed.
C12_OverflowUnreported ==
    /\ Fits(a.num) /\ Fits(a.den) /\ Fits(b.num) /\ Fits(b.den)
    /\ pc \in {"lt", "le", "gt", "ge", "eq"} =>
          /\ out.kind = "bool"
          /\ out.val \in BOOLEAN
          /\ ~out.overflow => out.val = ExactCompare(a, b)
    /\ pc \in {"add", "sub", "mul", "div"} =>
          /\ out.kind = "frac"
          /\ Fits(out.val.num) /\ Fits(out.val.den)
          /\ ~out.overflow => out.val = ExactArith(a, b)

\* Half/1 < 1/Half returned true: both operands are representable with
\* positive denominators, the product Half * Half is not
C12_Witness ==
    /\ pc = "lt"
    /\ a = Frac(Half, 1)
    /\ b = Frac(1, Half)
    /\ ~Fits(a.num * b.den)
    /\ out.overflow
    /\ out.val = TRUE
    /\ ExactCompare(a, b) = FALSE

\* a sum returned that is not the exact one
C12_WitnessAdd ==
    /\ pc = "add"
    /\ a.den > 0 /\ b.den > 0
    /\ out.overflow
    /\ out.val # ExactArith(a, b)

----------------------------------------------------------------------------
(* The claim about the collinearity tests. *)

\* the points tested are those of the block
Tested(block) == p0 = block[1] /\ p1 = block[2] /\ p2 = block[3]

\* p, q and r lie on one line, in tenths and in integers
OnOneLine(p, q, r) ==
    (q.x.num - p.x.num) * (r.y.num - p.y.num)
        = (r.x.num - p.x.num) * (q.y.num - p.y.num)

\* C13: on (0, 0.3), (1, 0.6), (2, 0.9) the collinearity test answers "not
\* collinear" when the coordinates are doubles, and "collinear" when the
\* same ratios 3/10, 6/10, 9/10 are exact fractions under exact arithmetic.
\* The exact test answers as the points lie, whatever they are; points
\* whose coordinates are integers are judged alike by all three tests.
C13_DoubleVersusExact ==
    /\ (Tested(Block1) /\ pc = "double") => out.val = FALSE
    /\ (Tested(Block1) /\ pc = "exact_of_double") => out.val = FALSE
    /\ (Tested(Block1) /\ pc = "exact") => out.val = TRUE
    /\ (Tested(Block4) /\ pc = "exact") => out.val = TRUE
    /\ pc = "exact" => out.val = OnOneLine(p0, p1, p2)
    /\ (pc \in {"double", "exact_of_double"}
            /\ \A p \in {p0, p1, p2} : p.y.num % 10 = 0)
          => out.val = OnOneLine(p0, p1, p2)

\* the doubles of block 1 were found not collinear
C13_Witness ==
    /\ Tested(Block1)
    /\ pc = "double"
    /\ out.val = FALSE

\* the exact fractions of block 1 were found collinear
C13_WitnessExact ==
    /\ Tested(Block1)
    /\ pc = "exact"
    /\ out.val = TRUE

=============================================================================
